---- MODULE Spec2Model ----
(***************************************************************************)
(* Model of robot/output/listeners.py: the Listeners registry, the         *)
(* ListenerProxy adapter and the no_recursion class decorator.             *)
(*                                                                         *)
(* The specifications share the definitions below:                         *)
(*   Spec         the registry after construction: the run-driving caller  *)
(*                issues notifications, each is delivered listener by      *)
(*                listener, and a listener's method may call back into the *)
(*                registry, return or raise;                               *)
(*   SpecRetry    Spec with the history of raising listeners kept;         *)
(*   SpecVersion  ListenerProxy.__init__ applied to one listener           *)
(*                specification;                                           *)
(*   SpecCtor     Listeners.__init__ applied to a sequence of listener     *)
(*                specifications;                                          *)
(*   SpecCopy     the payloads of one notification on a heap of lists and  *)
(*                dicts, changed afterwards by their holders;              *)
(*   SpecPair     the re-entrancy flags of two registries.                 *)
(***************************************************************************)
EXTENDS Integers, Sequences, FiniteSets, TLC

VARIABLES
    listeners,               \* self._listeners: Unset or the sequence of proxies
    recursion,               \* self._recursion
    running_test,            \* self._running_test
    setup_or_teardown_type,  \* self._setup_or_teardown_type
    stack,                   \* registry methods in execution, outermost first
    deliveries,              \* listener methods invoked since the caller's last call
    log,                     \* LOGGER records written since the caller's last call
    last,                    \* the caller's last call and how it ended
    kwstack,                 \* keywords the caller has started and not ended
    testOpen,                \* the caller has started a test and not ended it
    everNestedST,            \* the caller started a setup/teardown inside another
    config,                  \* the argument given to Listeners.__init__
    built,                   \* ListenerProxy(...) results of the construction
    candidate,               \* the listener specification under construction
    heap,                    \* the lists and dicts in memory, by address
    item,                    \* the suite, test or keyword a notification is about
    event,                   \* the notification whose payloads are being built
    payloads,                \* the address of the payload each listener was given
    payShadow,               \* what each listener has seen and put in its payload
    domShadow,               \* what the item's owner has put in its collections
    raisedBefore,            \* the listeners a method of which has raised, if kept
    instances,               \* the instance attributes of two registries
    calls                    \* the registries whose notification is executing

vars == <<listeners, recursion, running_test, setup_or_teardown_type, stack,
          deliveries, log, last, kwstack, testOpen, everNestedST, config,
          built, candidate, heap, item, event, payloads, payShadow, domShadow,
          raisedBefore, instances, calls>>

regVars == <<listeners, recursion, running_test, setup_or_teardown_type>>
callerVars == <<kwstack, testOpen, everNestedST>>
ctorVars == <<config, built, candidate>>
copyVars == <<heap, item, event, payloads, payShadow, domShadow>>
pairVars == <<instances, calls>>

(***************************************************************************)
(* Bounds of the model.                                                    *)
(***************************************************************************)
MaxListeners == 2   \* listeners of a registry in Spec
MaxNested == 2      \* calls back into the registry from one listener method
MaxDepth == 2       \* registry methods in execution at once
MaxKwDepth == 2     \* keywords open at once
MaxStrLen == 2      \* characters of a version marker given as a string
MaxSpecs == 2       \* listener specifications given to Listeners.__init__
MaxMutations == 2   \* changes made to collections after a payload was built
MaxCalls == 2       \* notifications of one registry dispatched, or dropped

None == "None"

\* self._listeners: never assigned, or assigned a list of proxies.
Unset == [assigned |-> FALSE, list |-> <<>>]
Assigned(proxies) == [assigned |-> TRUE, list |-> proxies]

\* The argument of Listeners.__init__: None, or a sequence of specifications.
NoneArg == [none |-> TRUE, specs |-> <<>>]
Given(specs) == [none |-> FALSE, specs |-> specs]

(***************************************************************************)
(* Python values a listener may declare as ROBOT_LISTENER_API_VERSION, and *)
(* int() on them.                                                          *)
(***************************************************************************)
Chars == {"0", "1", "2", " ", "-", "x"}

Strings(n) == UNION {[1..k -> Chars] : k \in 0..n}

\* Floats are fixed-point: tenths |-> 25 is 2.5.
Markers ==
    {[kind |-> "absent"], [kind |-> "none"]}
    \cup {[kind |-> "int", val |-> v] : v \in 1..3}
    \cup {[kind |-> "float", tenths |-> t] : t \in {15, 20, 25, 30}}
    \cup {[kind |-> "str", chars |-> s] : s \in Strings(MaxStrLen)}

IsDigit(c) == c \in {"0", "1", "2"}

DigitVal(c) == CASE c = "0" -> 0 [] c = "1" -> 1 [] c = "2" -> 2

RECURSIVE LStrip(_)
LStrip(s) == IF s # <<>> /\ Head(s) = " " THEN LStrip(Tail(s)) ELSE s

RECURSIVE RStrip(_)
RStrip(s) ==
    IF s # <<>> /\ s[Len(s)] = " " THEN RStrip(SubSeq(s, 1, Len(s) - 1)) ELSE s

\* The value of a digit string, -1 when a character is no digit.
RECURSIVE DigitsValue(_, _)
DigitsValue(s, acc) ==
    IF s = <<>> THEN acc
    ELSE IF IsDigit(Head(s)) THEN DigitsValue(Tail(s), 10 * acc + DigitVal(Head(s)))
    ELSE -1

\* int(str): surrounding whitespace is ignored, then an optional sign and digits.
IntOfStr(chars) ==
    LET s == RStrip(LStrip(chars))
        neg == s # <<>> /\ Head(s) = "-"
        digits == IF neg THEN Tail(s) ELSE s
        v == DigitsValue(digits, 0)
    IN  IF digits = <<>> \/ v < 0 THEN [exc |-> "ValueError"]
        ELSE [exc |-> "none", val |-> IF neg THEN 0 - v ELSE v]

\* int(float) truncates towards zero.
IntOfFloat(tenths) ==
    [exc |-> "none",
     val |-> IF tenths >= 0 THEN tenths \div 10 ELSE 0 - ((0 - tenths) \div 10)]

\* int(listener.ROBOT_LISTENER_API_VERSION)
PyInt(m) ==
    CASE m.kind = "absent" -> [exc |-> "AttributeError"]
      [] m.kind = "none"   -> [exc |-> "TypeError"]
      [] m.kind = "int"    -> [exc |-> "none", val |-> m.val]
      [] m.kind = "float"  -> IntOfFloat(m.tenths)
      [] m.kind = "str"    -> IntOfStr(m.chars)

SupportedVersion == 2

(***************************************************************************)
(* ListenerProxy.__init__                                                  *)
(*                                                                         *)
(* A listener specification is what the registry is given together with    *)
(* what its collaborators answer for it: isString (a name or path, or a    *)
(* ready-made object), text (the string given), typeName (type_name of the *)
(* object given), name (the name split_args_from_name_or_path returns for  *)
(* the string), loads (whether the Importer returns an instance) and       *)
(* marker (what the instance declares).                                    *)
(***************************************************************************)
ObjectSpec(typeName, marker) ==
    [isString |-> FALSE, text |-> "", typeName |-> typeName, name |-> "",
     loads |-> TRUE, marker |-> marker]

StringSpec(text, name, loads, marker) ==
    [isString |-> TRUE, text |-> text, typeName |-> "str", name |-> name,
     loads |-> loads, marker |-> marker]

\* _import_listener: the name, and whether the Importer returned an instance
\* (it fails with a DataError).
ImportListener(spec) ==
    IF ~spec.isString THEN [ok |-> TRUE, name |-> spec.typeName]
    ELSE IF spec.loads THEN [ok |-> TRUE, name |-> spec.name]
    ELSE [ok |-> FALSE, name |-> spec.name]

VersionAccepted(v) == v = SupportedVersion

\* _get_version: the version, or the DataError raised.
GetVersion(name, marker) ==
    LET r == PyInt(marker)
    IN  IF r.exc = "AttributeError"
            THEN [ok |-> FALSE, err |-> [kind |-> "missing", name |-> name]]
        ELSE IF r.exc \in {"ValueError", "TypeError"}
            THEN [ok |-> FALSE, err |-> [kind |-> "unsupported", name |-> name]]
        ELSE IF ~VersionAccepted(r.val)
            THEN [ok |-> FALSE, err |-> [kind |-> "unsupported", name |-> name]]
        ELSE [ok |-> TRUE, version |-> r.val]

\* ListenerProxy(listener): the proxy, or the DataError raised.
ListenerProxyInit(spec) ==
    LET imp == ImportListener(spec)
    IN  IF ~imp.ok
            THEN [ok |-> FALSE, err |-> [kind |-> "import", name |-> imp.name]]
        ELSE LET ver == GetVersion(imp.name, spec.marker)
             IN  IF ver.ok
                     THEN [ok |-> TRUE,
                           proxy |-> [name |-> imp.name, version |-> ver.version]]
                 ELSE [ok |-> FALSE, err |-> ver.err]

(***************************************************************************)
(* Listeners.__init__ and _import_listeners                                *)
(***************************************************************************)
\* The name the error is logged under: the string given, else the type name.
DisplayName(spec) == IF spec.isString THEN spec.text ELSE spec.typeName

ImportErrorRecord(spec, err) ==
    [sev |-> "error", what |-> "import", listener |-> DisplayName(spec),
     cause |-> err]

\* An _import_listeners that drops a failed specification without logging.
ImportOneUnlogged(spec) ==
    LET r == ListenerProxyInit(spec)
    IN  IF r.ok THEN [proxies |-> <<r.proxy>>, log |-> <<>>]
        ELSE [proxies |-> <<>>, log |-> <<>>]

\* What one specification adds to the proxies yielded and to the log.
ImportOne(spec) ==
    LET r == ListenerProxyInit(spec)
    IN  IF r.ok THEN [proxies |-> <<r.proxy>>, log |-> <<>>]
        ELSE [proxies |-> <<>>, log |-> <<ImportErrorRecord(spec, r.err)>>]

RECURSIVE ImportListeners(_)
ImportListeners(specs) ==
    IF specs = <<>> THEN [proxies |-> <<>>, log |-> <<>>]
    ELSE LET h == ImportOne(Head(specs))
             t == ImportListeners(Tail(specs))
         IN  [proxies |-> h.proxies \o t.proxies, log |-> h.log \o t.log]

\* self._listeners after __init__(listeners).
InitListeners(arg) ==
    IF ~arg.none THEN Assigned(ImportListeners(arg.specs).proxies) ELSE Unset

InitLog(arg) == IF ~arg.none THEN ImportListeners(arg.specs).log ELSE <<>>

(***************************************************************************)
(* The no_recursion decorator and the derived keyword type.                *)
(***************************************************************************)
\* A wrapper that does not look at the flag.
AlwaysEnters(flag) == TRUE

\* avoid_recursion: the wrapped method runs only if the flag is not set.
AvoidRecursionEnters(flag) == ~flag

\* The flag after the wrapped method has returned.
FlagAfterReturn == FALSE

KwTypes == {"kw", "setup", "teardown"}

\* str.title() on the declared keyword types.
Title(t) ==
    CASE t = "setup" -> "Setup" [] t = "teardown" -> "Teardown" [] t = "kw" -> "Kw"

\* _get_setup_or_teardown_type
GetSetupOrTeardownType(running, t) ==
    (IF running THEN "Test" ELSE "Suite") \o " " \o Title(t)

\* A _get_keyword_type that uses up the pending type it reports.
GetKeywordTypeOnce(t, start, pending, running) ==
    IF t = "kw"
        THEN [type |-> IF pending # None THEN pending ELSE "Keyword",
              pending |-> None]
    ELSE LET kw_type == GetSetupOrTeardownType(running, t)
         IN  [type |-> kw_type, pending |-> IF start THEN kw_type ELSE None]

\* _get_keyword_type: the type reported and the pending type it leaves.
GetKeywordType(t, start, pending, running) ==
    IF t = "kw"
        THEN [type |-> IF pending # None THEN pending ELSE "Keyword",
              pending |-> pending]
    ELSE LET kw_type == GetSetupOrTeardownType(running, t)
         IN  [type |-> kw_type, pending |-> IF start THEN kw_type ELSE None]

(***************************************************************************)
(* The notification operations and the listener method each one invokes.   *)
(***************************************************************************)
Ops ==
    {"start_suite", "end_suite", "start_test", "end_test", "start_keyword",
     "end_keyword", "imported", "log_message", "message", "output_file", "close"}

KeywordOps == {"start_keyword", "end_keyword"}

\* The import and file types a caller may pass; the last of each names no
\* method of the proxy.
ImportTypes == {"Library", "Resource", "Variables", "Plugin"}
FileTypes == {"Output", "Report", "Log", "Debug", "XUnit", "Summary"}

Args(op) ==
    CASE op \in KeywordOps -> KwTypes
      [] op = "imported" -> ImportTypes
      [] op = "output_file" -> FileTypes
      [] OTHER -> {"-"}

\* str.lower() on the import and file types.
Lower(s) ==
    CASE s = "Library" -> "library" [] s = "Resource" -> "resource"
      [] s = "Variables" -> "variables" [] s = "Plugin" -> "plugin"
      [] s = "Output" -> "output" [] s = "Report" -> "report"
      [] s = "Log" -> "log" [] s = "Debug" -> "debug"
      [] s = "XUnit" -> "xunit" [] s = "Summary" -> "summary"

\* ListenerProxy._methods: the attributes a proxy has for listener methods.
Methods ==
    {"start_suite", "end_suite", "start_test", "end_test", "start_keyword",
     "end_keyword", "log_message", "message", "output_file", "report_file",
     "log_file", "debug_file", "xunit_file", "close", "library_import",
     "resource_import", "variables_import"}

\* The attribute of the proxy the operation reads.
MethodName(op, arg) ==
    CASE op = "imported" -> Lower(arg) \o "_import"
      [] op = "output_file" -> Lower(arg) \o "_file"
      [] OTHER -> op

\* getattr(listener, name) succeeds.
HasMethod(name) == name \in Methods

\* start_test and end_test assign _running_test before their loop.
RunningAfterEntry(op, running) ==
    IF op = "start_test" THEN TRUE
    ELSE IF op = "end_test" THEN FALSE
    ELSE running

\* A call_method that logs the error and leaves out the details.
CallMethodErrorOnly(listener, method) ==
    <<[sev |-> "error", what |-> "call", listener |-> listener, method |-> method]>>

\* call_method on an exception: one error record and one info record.
CallMethodFailureLog(listener, method) ==
    <<[sev |-> "error", what |-> "call", listener |-> listener, method |-> method],
      [sev |-> "info", what |-> "details", listener |-> listener, method |-> method]>>

\* The listener the loop continues with after call_method has ended.
NextListener(i) == i + 1

(***************************************************************************)
(* Payloads.  A value is a scalar or a reference to a list or dict held at *)
(* an address of the heap; two references to one address are the same      *)
(* object.                                                                 *)
(***************************************************************************)
Scalar(v) == [ref |-> FALSE, val |-> v, addr |-> 0]
Ref(a) == [ref |-> TRUE, val |-> "", addr |-> a]

\* A list or tuple has items; a dict of scalars (metadata) has them too; the
\* dict a listener is given (attrs) has fields.
EmptyFields == [n \in {} |-> Scalar("")]
FreeCell == [type |-> "free", items |-> <<>>, fields |-> EmptyFields]
Collection(type, items) == [type |-> type, items |-> items, fields |-> EmptyFields]
AttrsDict(fields) == [type |-> "attrs", items |-> <<>>, fields |-> fields]

\* Room for the item's collections and every listener's payload.
HeapSize == 3 + 4 * MaxListeners

EmptyHeap == [a \in 1..HeapSize |-> FreeCell]

\* The address a new object gets.
Alloc(h) ==
    CHOOSE a \in DOMAIN h :
        h[a].type = "free" /\ \A b \in DOMAIN h : b < a => h[b].type # "free"

\* A copy that is the same object.
TakeNoCopy(h, v) == [heap |-> h, val |-> v]

\* _take_copy_of_mutable_value: dict(value), list(value) or the value itself.
TakeCopyOfMutableValue(h, v) ==
    IF v.ref /\ h[v.addr].type = "dict"
        THEN LET a == Alloc(h)
             IN  [heap |-> [h EXCEPT ![a] = Collection("dict", h[v.addr].items)],
                  val |-> Ref(a)]
    ELSE IF v.ref /\ h[v.addr].type \in {"list", "tuple"}
        THEN LET a == Alloc(h)
             IN  [heap |-> [h EXCEPT ![a] = Collection("list", h[v.addr].items)],
                  val |-> Ref(a)]
    ELSE [heap |-> h, val |-> v]

\* _get_attr_value
GetAttrValue(h, it, name) == TakeCopyOfMutableValue(h, it.attrs[name])

StartAttrs == <<"id", "doc", "starttime", "longname">>
EndAttrs == StartAttrs \o <<"endtime", "elapsedtime", "status", "message">>
KwExtraAttrs ==
    <<"args", "assign", "kwname", "libname", "-id", "-longname", "-message">>

\* name.startswith('-') and name[1:] on the names used.
StartsWithMinus(name) == name \in {"-id", "-longname", "-message"}

WithoutFirstChar(name) ==
    CASE name = "-id" -> "id" [] name = "-longname" -> "longname"
      [] name = "-message" -> "message"

\* A remove that leaves the list as it is.
RemoveNothing(names, x) == names

\* list.remove: without the first occurrence.
Remove(names, x) ==
    LET k == CHOOSE j \in 1..Len(names) :
                 names[j] = x /\ \A m \in 1..(j - 1) : names[m] # x
    IN  SubSeq(names, 1, k - 1) \o SubSeq(names, k + 1, Len(names))

\* _get_attr_names
RECURSIVE GetAttrNames(_, _)
GetAttrNames(names, extra) ==
    IF extra = <<>> THEN names
    ELSE LET name == Head(extra)
         IN  IF ~StartsWithMinus(name)
                 THEN GetAttrNames(Append(names, name), Tail(extra))
             ELSE IF \E j \in 1..Len(names) : names[j] = WithoutFirstChar(name)
                 THEN GetAttrNames(Remove(names, WithoutFirstChar(name)),
                                   Tail(extra))
             ELSE GetAttrNames(names, Tail(extra))

\* _get_attrs: the dict of the named attributes' values, each copied.
RECURSIVE GetAttrsOf(_, _, _)
GetAttrsOf(h, it, names) ==
    IF names = <<>> THEN [heap |-> h, fields |-> EmptyFields]
    ELSE LET v == GetAttrValue(h, it, Head(names))
             rest == GetAttrsOf(v.heap, it, Tail(names))
         IN  [heap |-> rest.heap,
              fields |-> (Head(names) :> v.val) @@ rest.fields]

GetStartAttrs(h, it, extra) == GetAttrsOf(h, it, GetAttrNames(StartAttrs, extra))
GetEndAttrs(h, it, extra) == GetAttrsOf(h, it, GetAttrNames(EndAttrs, extra))

\* The list of children itself in place of a new list.
NamesOfNoCopy(h, children) == [heap |-> h, val |-> children]

\* [x.name for x in children]: a new list of the names.
NamesOf(h, children) ==
    LET a == Alloc(h)
    IN  [heap |-> [h EXCEPT ![a] = Collection("list", h[children.addr].items)],
         val |-> Ref(a)]

\* The value itself, None included.
KeepValue(v) == v

\* value or ''
OrEmpty(v) == IF v = Scalar(None) THEN Scalar("") ELSE v

\* 'yes' if value else 'no'
YesNo(v) == IF v = Scalar("True") THEN Scalar("yes") ELSE Scalar("no")

\* _get_suite_attrs
GetSuiteAttrs(h, suite) ==
    LET tests == NamesOf(h, suite.attrs["tests"])
        suites == NamesOf(tests.heap, suite.attrs["suites"])
    IN  [heap |-> suites.heap,
         fields |-> ("tests" :> tests.val) @@ ("suites" :> suites.val)
                    @@ ("totaltests" :> suite.attrs["test_count"])
                    @@ ("source" :> OrEmpty(suite.attrs["source"]))]

\* dict.update: the second dict's values replace the first's.
Update(fields, more) == more @@ fields

PayloadOps ==
    {"start_suite", "end_suite", "start_test", "end_test", "start_keyword",
     "end_keyword"}

MessageOps == {"log_message", "message"}

\* _create_msg_dict: a new dict of the message's four values.
CreateMsgDict(msg) ==
    ("timestamp" :> msg.attrs["timestamp"]) @@ ("message" :> msg.attrs["message"])
    @@ ("level" :> msg.attrs["level"]) @@ ("html" :> YesNo(msg.attrs["html"]))

\* The payload one listener is given for the operation: the heap with the
\* payload in it and the payload's fields.
BuildAttrs(op, h, it) ==
    CASE op = "start_suite" ->
             LET a == GetStartAttrs(h, it, <<"metadata">>)
                 b == GetSuiteAttrs(a.heap, it)
             IN  [heap |-> b.heap, fields |-> Update(a.fields, b.fields)]
      [] op = "end_suite" ->
             LET a == GetEndAttrs(h, it, <<"metadata">>)
                 b == GetSuiteAttrs(a.heap, it)
             IN  [heap |-> b.heap,
                  fields |-> Update(Update(a.fields,
                                 "statistics" :> it.attrs["stat_message"]),
                                 b.fields)]
      [] op = "start_test" ->
             LET a == GetStartAttrs(h, it, <<"tags">>)
             IN  [heap |-> a.heap,
                  fields |-> Update(a.fields,
                      ("critical" :> YesNo(it.attrs["critical"]))
                      @@ ("template" :> OrEmpty(it.attrs["template"])))]
      [] op = "end_test" ->
             LET a == GetEndAttrs(h, it, <<"tags">>)
             IN  [heap |-> a.heap,
                  fields |-> Update(a.fields,
                      ("critical" :> YesNo(it.attrs["critical"]))
                      @@ ("template" :> OrEmpty(it.attrs["template"])))]
      [] op = "start_keyword" ->
             LET a == GetStartAttrs(h, it, KwExtraAttrs)
             IN  [heap |-> a.heap,
                  fields |-> Update(a.fields, "type" :> Scalar(
                      GetKeywordType(it.attrs["type"].val, TRUE, None, FALSE).type))]
      [] op = "end_keyword" ->
             LET a == GetEndAttrs(h, it, KwExtraAttrs)
             IN  [heap |-> a.heap,
                  fields |-> Update(a.fields, "type" :> Scalar(
                      GetKeywordType(it.attrs["type"].val, FALSE, None, FALSE).type))]
      [] op \in MessageOps -> [heap |-> h, fields |-> CreateMsgDict(it)]

\* The payload as an object of the heap: the dict built for the listener,
\* or for imported the attrs argument itself.
NewPayload(op, h, it) ==
    IF op = "imported" THEN [heap |-> h, addr |-> it.attrs["attrs"].addr]
    ELSE LET b == BuildAttrs(op, h, it)
             a == Alloc(b.heap)
         IN  [heap |-> [b.heap EXCEPT ![a] = AttrsDict(b.fields)], addr |-> a]

\* What a holder of the dict at an address sees in it: for each key the
\* scalar, or the items of the list or dict.
View(h, a) ==
    [n \in DOMAIN h[a].fields |->
        IF h[a].fields[n].ref THEN h[h[a].fields[n].addr].items
        ELSE <<h[a].fields[n].val>>]

NoItem == [kind |-> "-", attrs |-> EmptyFields]
NoEvent == [op |-> "-", n |-> 0, i |-> 0, muts |-> 0]

\* No second registry is modelled.
NoPair ==
    /\ instances = <<>>
    /\ calls = <<>>

NoPayloads ==
    /\ heap = <<>>
    /\ item = NoItem
    /\ event = NoEvent
    /\ payloads = <<>>
    /\ payShadow = <<>>
    /\ domShadow = EmptyFields

(***************************************************************************)
(* Spec: the registry in use.                                              *)
(***************************************************************************)
GoodSpec(k) == ObjectSpec("L" \o ToString(k), [kind |-> "int", val |-> 2])

MainConfigs ==
    {NoneArg} \cup {Given([k \in 1..n |-> GoodSpec(k)]) : n \in 0..MaxListeners}

NoSpec == ObjectSpec("-", [kind |-> "absent"])

NoCall == [op |-> "-", arg |-> "-", result |-> "-"]

\* The history of raising listeners: kept or not, and the listeners.
NotKept == [kept |-> FALSE, who |-> {}]
Kept(who) == [kept |-> TRUE, who |-> who]
Record(h, j) == IF h.kept THEN Kept(h.who \cup {j}) ELSE h

Init ==
    /\ config \in MainConfigs
    /\ listeners = InitListeners(config)
    /\ log = InitLog(config)
    /\ recursion = FALSE
    /\ running_test = FALSE
    /\ setup_or_teardown_type = None
    /\ stack = <<>>
    /\ deliveries = <<>>
    /\ last = NoCall
    /\ kwstack = <<>>
    /\ testOpen = FALSE
    /\ everNestedST = FALSE
    /\ built = <<>>
    /\ candidate = NoSpec
    /\ raisedBefore = NotKept
    /\ NoPayloads
    /\ NoPair

\* A registry method in execution: the listener its loop is at, whether that
\* listener's method is running, the calls it has made back into the
\* registry, and the place of its invocation in deliveries.
Frame(op, arg) ==
    [op |-> op, arg |-> arg, i |-> 1, phase |-> "loop", nest |-> 0, d |-> 0]

Top == stack[Len(stack)]

Below == SubSeq(stack, 1, Len(stack) - 1)

IsSetupOrTeardown(t) == t # "kw"

\* What the run-driving caller does: keywords are started and ended in
\* pairs, properly nested; tests are started and ended in turn.
CallerMay(op, arg) ==
    CASE op = "start_keyword" -> Len(kwstack) < MaxKwDepth
      [] op = "end_keyword" -> kwstack # <<>> /\ kwstack[Len(kwstack)].type = arg
      [] op = "start_test" -> ~testOpen
      [] op = "end_test" -> testOpen
      [] OTHER -> TRUE

CallerNotes(op, arg) ==
    /\ kwstack' =
        CASE op = "start_keyword" -> Append(kwstack, [type |-> arg, label |-> "-"])
          [] op = "end_keyword" -> SubSeq(kwstack, 1, Len(kwstack) - 1)
          [] OTHER -> kwstack
    /\ testOpen' =
        CASE op = "start_test" -> TRUE [] op = "end_test" -> FALSE [] OTHER -> testOpen
    /\ everNestedST' =
        (everNestedST
         \/ (op = "start_keyword" /\ IsSetupOrTeardown(arg)
             /\ \E k \in 1..Len(kwstack) : IsSetupOrTeardown(kwstack[k].type)))

\* A notification operation called by the run-driving caller.
Notify(op, arg) ==
    /\ stack = <<>>
    /\ CallerMay(op, arg)
    /\ CallerNotes(op, arg)
    /\ deliveries' = <<>>
    /\ log' = <<>>
    /\ IF ~AvoidRecursionEnters(recursion)
           THEN /\ last' = [op |-> op, arg |-> arg, result |-> "dropped"]
                /\ UNCHANGED <<regVars, stack>>
       ELSE /\ recursion' = TRUE
            /\ running_test' = RunningAfterEntry(op, running_test)
            /\ UNCHANGED <<listeners, setup_or_teardown_type>>
            /\ IF listeners = Unset
                   THEN /\ stack' = <<>>
                        /\ last' = [op |-> op, arg |-> arg, result |-> "raised"]
               ELSE /\ stack' = <<Frame(op, arg)>>
                    /\ last' = [op |-> op, arg |-> arg, result |-> "running"]
    /\ UNCHANGED <<raisedBefore, ctorVars, copyVars, pairVars>>

\* bool(listeners): __nonzero__ is not wrapped by no_recursion.
Nonzero ==
    /\ stack = <<>>
    /\ last' = [op |-> "__nonzero__", arg |-> "-",
                result |-> IF listeners = Unset THEN "raised"
                           ELSE IF listeners.list # <<>> THEN "true" ELSE "false"]
    /\ deliveries' = <<>>
    /\ log' = <<>>
    /\ UNCHANGED <<regVars, stack, callerVars, raisedBefore, ctorVars, copyVars,
                   pairVars>>

\* One turn of a method's loop up to the call of the listener's method.
Deliver ==
    /\ stack # <<>>
    /\ Top.phase = "loop"
    /\ Top.i <= Len(listeners.list)
    /\ HasMethod(MethodName(Top.op, Top.arg))
    /\ LET kt == IF Top.op \in KeywordOps
                     THEN GetKeywordType(Top.arg, Top.op = "start_keyword",
                                         setup_or_teardown_type, running_test)
                 ELSE [type |-> "-", pending |-> setup_or_teardown_type]
       IN  /\ setup_or_teardown_type' = kt.pending
           /\ deliveries' = Append(deliveries,
                  [depth |-> Len(stack), l |-> Top.i,
                   method |-> MethodName(Top.op, Top.arg), type |-> kt.type,
                   outcome |-> "running"])
           /\ kwstack' =
                  IF Len(stack) = 1 /\ Top.op = "start_keyword"
                      THEN [kwstack EXCEPT ![Len(kwstack)].label = kt.type]
                  ELSE kwstack
    /\ stack' = [stack EXCEPT ![Len(stack)].phase = "method",
                              ![Len(stack)].nest = 0,
                              ![Len(stack)].d = Len(deliveries) + 1]
    /\ UNCHANGED <<listeners, recursion, running_test, log, last, testOpen,
                   everNestedST, raisedBefore, ctorVars, copyVars, pairVars>>

\* An exception leaves the innermost registry method: the wrapper does not
\* reset the flag; the caller sees it, or the listener method that made the
\* call ends with it and call_method of the outer loop logs it.
Propagate ==
    IF Len(stack) = 1
        THEN /\ stack' = <<>>
             /\ last' = [last EXCEPT !.result = "raised"]
             /\ log' = log
             /\ deliveries' = deliveries
             /\ raisedBefore' = raisedBefore
    ELSE LET outer == stack[Len(stack) - 1]
         IN  /\ stack' = [Below EXCEPT
                              ![Len(stack) - 1] = [outer EXCEPT
                                  !.i = NextListener(outer.i), !.phase = "loop"]]
             /\ last' = last
             /\ log' = log \o CallMethodFailureLog(listeners.list[outer.i].name,
                                  MethodName(outer.op, outer.arg))
             /\ deliveries' = [deliveries EXCEPT ![outer.d].outcome = "raised"]
             /\ raisedBefore' = Record(raisedBefore, outer.i)

\* getattr(listener, '<type>_import') or getattr(listener, '<type>_file')
\* fails: the AttributeError is raised outside call_method.
LookupFails ==
    /\ stack # <<>>
    /\ Top.phase = "loop"
    /\ Top.i <= Len(listeners.list)
    /\ ~HasMethod(MethodName(Top.op, Top.arg))
    /\ Propagate
    /\ UNCHANGED <<regVars, callerVars, ctorVars, copyVars, pairVars>>

\* The listener's method returns to call_method.
MethodReturns ==
    /\ stack # <<>>
    /\ Top.phase = "method"
    /\ stack' = [stack EXCEPT ![Len(stack)].phase = "loop",
                              ![Len(stack)].i = NextListener(Top.i)]
    /\ deliveries' = [deliveries EXCEPT ![Top.d].outcome = "returned"]
    /\ UNCHANGED <<regVars, log, last, callerVars, raisedBefore, ctorVars,
                   copyVars, pairVars>>

\* The listener's method raises: call_method logs it and the loop goes on.
MethodRaises ==
    /\ stack # <<>>
    /\ Top.phase = "method"
    /\ log' = log \o CallMethodFailureLog(listeners.list[Top.i].name,
                                          MethodName(Top.op, Top.arg))
    /\ stack' = [stack EXCEPT ![Len(stack)].phase = "loop",
                              ![Len(stack)].i = NextListener(Top.i)]
    /\ deliveries' = [deliveries EXCEPT ![Top.d].outcome = "raised"]
    /\ raisedBefore' = Record(raisedBefore, Top.i)
    /\ UNCHANGED <<regVars, last, callerVars, ctorVars, copyVars, pairVars>>

\* The listener's method calls a notification operation of the registry.
ListenerCallsBack(op, arg) ==
    /\ stack # <<>>
    /\ Top.phase = "method"
    /\ Top.nest < MaxNested
    /\ Len(stack) < MaxDepth
    /\ IF ~AvoidRecursionEnters(recursion)
           THEN /\ stack' = [stack EXCEPT ![Len(stack)].nest = Top.nest + 1]
                /\ UNCHANGED regVars
       ELSE /\ recursion' = TRUE
            /\ running_test' = RunningAfterEntry(op, running_test)
            /\ stack' = Append([stack EXCEPT ![Len(stack)].nest = Top.nest + 1],
                               Frame(op, arg))
            /\ UNCHANGED <<listeners, setup_or_teardown_type>>
    /\ UNCHANGED <<deliveries, log, last, callerVars, raisedBefore, ctorVars,
                   copyVars, pairVars>>

\* The loop is over: the method returns and the wrapper resets the flag.
Return ==
    /\ stack # <<>>
    /\ Top.phase = "loop"
    /\ Top.i > Len(listeners.list)
    /\ recursion' = FlagAfterReturn
    /\ stack' = Below
    /\ last' = IF Len(stack) = 1 THEN [last EXCEPT !.result = "returned"] ELSE last
    /\ UNCHANGED <<listeners, running_test, setup_or_teardown_type, deliveries,
                   log, callerVars, raisedBefore, ctorVars, copyVars, pairVars>>

Next ==
    \/ \E op \in Ops : \E arg \in Args(op) : Notify(op, arg)
    \/ Nonzero
    \/ Deliver
    \/ LookupFails
    \/ MethodReturns
    \/ MethodRaises
    \/ \E op \in Ops : \E arg \in Args(op) : ListenerCallsBack(op, arg)
    \/ Return

Spec == Init /\ [][Next]_vars

(***************************************************************************)
(* Properties of Spec.                                                     *)
(***************************************************************************)
NumListeners == Len(listeners.list)

Idle == stack = <<>>

\* The caller's last call was a notification operation.
Notified == last.op \in Ops

\* The listeners invoked for the caller's call, in the order of invocation.
Invoked == [k \in 1..Len(deliveries) |-> deliveries[k].l]

\* The log records of one severity written for one listener.
LogCount(sev, name) ==
    Cardinality({k \in 1..Len(log) : log[k].sev = sev /\ log[k].listener = name})

\* C1: a notification operation called while another one of the same registry
\* is executing (here: from inside a listener's method) is dropped: no registry
\* method starts executing inside another, no listener method is invoked from a
\* nested call, and the call that was executing goes on, with the flag set and
\* no error raised.
ReentrancyDrop ==
    /\ Len(stack) <= 1
    /\ \A k \in 1..Len(deliveries) : deliveries[k].depth = 1
    /\ (stack # <<>> /\ Top.nest > 0) => (recursion /\ last.result = "running")

\* log_message is being delivered: the first listener's method has ended,
\* the second listener's method is running and has called back into the
\* registry twice.
ReentrancyDropWitness ==
    /\ Len(stack) = 1
    /\ Top.phase = "method"
    /\ Top.nest = 2
    /\ Top.i = 2
    /\ Len(deliveries) = 2
    /\ last = [op |-> "log_message", arg |-> "-", result |-> "running"]

\* C2: when the method of a listener raises, the caller does not see the
\* exception, exactly one error record and one info record are logged for
\* that listener, nothing else is logged, and once the call has ended every
\* later listener has had its method invoked.
FailureIsolation ==
    LET failed == {k \in 1..Len(deliveries) : deliveries[k].outcome = "raised"}
    IN  /\ \A k \in failed :
               LET name == listeners.list[deliveries[k].l].name
               IN  /\ LogCount("error", name) = 1
                   /\ LogCount("info", name) = 1
                   /\ last.result # "raised"
                   /\ Idle => /\ last.result = "returned"
                              /\ \A j \in (deliveries[k].l + 1)..NumListeners :
                                     \E m \in 1..Len(deliveries) :
                                         deliveries[m].l = j
        /\ Notified => Len(log) = 2 * Cardinality(failed)

\* start_test has returned to the caller; the first listener's start_test
\* raised and the second listener's start_test was invoked and returned.
FailureIsolationWitness ==
    /\ Idle
    /\ last = [op |-> "start_test", arg |-> "-", result |-> "returned"]
    /\ Len(deliveries) = 2
    /\ deliveries[1].outcome = "raised"
    /\ deliveries[2].l = 2
    /\ deliveries[2].outcome = "returned"

\* C3: every notification operation the caller calls on a registry with at
\* least one listener returns after it has invoked the method on each
\* listener exactly once, in registration order.
OrderedExactlyOnce ==
    (Idle /\ Notified /\ listeners.assigned /\ NumListeners >= 1)
        => /\ last.result = "returned"
           /\ Invoked = [k \in 1..NumListeners |-> k]
           /\ \A k \in 1..Len(deliveries) :
                  deliveries[k].method = MethodName(last.op, last.arg)

\* C4: with keywords properly paired and no setup/teardown inside another, a
\* plain keyword inside a setup/teardown reports that keyword's label, one
\* outside any reports 'Keyword', and once no setup/teardown is open the
\* pending type is none.
Enclosing ==
    IF last.op = "start_keyword" THEN SubSeq(kwstack, 1, Len(kwstack) - 1)
    ELSE kwstack

OpenSetupOrTeardown(ks) == {k \in 1..Len(ks) : IsSetupOrTeardown(ks[k].type)}

KeywordTypeInheritance ==
    ~everNestedST =>
        /\ (last.op \in KeywordOps /\ last.arg = "kw") =>
               \A k \in 1..Len(deliveries) :
                   /\ \A e \in OpenSetupOrTeardown(Enclosing) :
                          deliveries[k].type = Enclosing[e].label
                   /\ OpenSetupOrTeardown(Enclosing) = {} =>
                          deliveries[k].type = "Keyword"
        /\ (Idle /\ OpenSetupOrTeardown(kwstack) = {}) =>
               setup_or_teardown_type = None

\* C7: a registry constructed from None or from no specifications answers
\* false to the boolean check, and every notification operation returns
\* without invoking anything and without raising.
InertRegistry ==
    (config.none \/ config.specs = <<>>) =>
        /\ last.result # "raised"
        /\ last.op = "__nonzero__" => last.result = "false"
        /\ deliveries = <<>>

\* C8: whenever no notification operation of a registry with listeners is
\* executing, the flag is false.
GuardRelease == (Idle /\ listeners.assigned) => recursion = FALSE

\* C10: imported and output_file never raise to the caller of a registry
\* with listeners: a missing '<type>_import' or '<type>_file' attribute is
\* logged for the listener and the remaining listeners are still notified.
NoErrorFromDynamicDispatch ==
    (listeners.assigned /\ last.op \in {"imported", "output_file"}) =>
        /\ last.result # "raised"
        /\ (Idle /\ last.result = "returned"
            /\ ~HasMethod(MethodName(last.op, last.arg))) =>
               \A j \in 1..NumListeners :
                   LogCount("error", listeners.list[j].name) = 1

\* The label of a setup or teardown, as the documentation of the listener
\* interface gives it.
ScopeRole(inTest, declared) ==
    CASE inTest /\ declared = "setup" -> "Test Setup"
      [] inTest /\ declared = "teardown" -> "Test Teardown"
      [] ~inTest /\ declared = "setup" -> "Suite Setup"
      [] ~inTest /\ declared = "teardown" -> "Suite Teardown"

\* C11: once the caller's start_keyword or end_keyword of a keyword declared
\* setup or teardown is over, every listener has been given the type
\* '<Scope> <Role>', the scope being 'Test' exactly when the caller has
\* started a test and not ended it, and the pending type is that label after
\* a start and none after an end.
SetupTeardownLabel ==
    (last.op \in KeywordOps /\ IsSetupOrTeardown(last.arg)) =>
        /\ \A k \in 1..Len(deliveries) :
               deliveries[k].type = ScopeRole(testOpen, last.arg)
        /\ (Idle /\ NumListeners >= 1) =>
               /\ Len(deliveries) = NumListeners
               /\ setup_or_teardown_type =
                      IF last.op = "start_keyword"
                          THEN ScopeRole(testOpen, last.arg) ELSE None

\* The outermost setup or teardown the caller has open.
Outermost(ks) ==
    CHOOSE e \in OpenSetupOrTeardown(ks) :
        \A f \in OpenSetupOrTeardown(ks) : e <= f

\* C12: while a setup or teardown is open, a plain keyword reports the label
\* of the outermost one, and between notifications the pending type is that
\* label, whatever setup or teardown has started and ended inside it.
OutermostSetsPending ==
    /\ (last.op \in KeywordOps /\ last.arg = "kw"
        /\ OpenSetupOrTeardown(Enclosing) # {}) =>
           \A k \in 1..Len(deliveries) :
               deliveries[k].type = Enclosing[Outermost(Enclosing)].label
    /\ (Idle /\ ~recursion /\ NumListeners >= 1
        /\ OpenSetupOrTeardown(kwstack) # {}) =>
           setup_or_teardown_type = kwstack[Outermost(kwstack)].label

\* The operation a step has entered or dropped.
Called(op) ==
    \/ last'.op = op /\ last' # last
    \/ stack' # <<>> /\ Len(stack') > Len(stack) /\ stack'[Len(stack')].op = op

\* C15: running_test is false and the pending type none after construction;
\* whenever no notification is executing, running_test is true exactly when
\* the caller has started a test and not ended it; and only start_test and
\* end_test change it.
RunningTestInvariant ==
    /\ [](last = NoCall => (running_test = FALSE /\ setup_or_teardown_type = None))
    /\ [](Idle => (running_test <=> testOpen))
    /\ [][running_test' # running_test
              => (Called("start_test") \/ Called("end_test"))]_vars

\* C18: the listeners invoked for one start_keyword or end_keyword are all
\* given the same type, and once the first of them has been invoked no
\* later turn of the loop changes the pending type: it is after the
\* notification what it was after the first listener's turn.
SameTypeForAllAdapters ==
    /\ [](last.op \in KeywordOps =>
              \A j, k \in 1..Len(deliveries) :
                  deliveries[j].type = deliveries[k].type)
    /\ [][(stack # <<>> /\ deliveries # <<>>) =>
              setup_or_teardown_type' = setup_or_teardown_type]_vars

\* The end of a suite setup was delivered to two listeners: the first turn
\* cleared the pending type, and the second listener was still given
\* 'Suite Setup'.
SameTypeForAllAdaptersWitness ==
    /\ Idle
    /\ last = [op |-> "end_keyword", arg |-> "setup", result |-> "returned"]
    /\ Len(deliveries) = 2
    /\ deliveries[1].type = "Suite Setup"
    /\ deliveries[2].type = "Suite Setup"
    /\ setup_or_teardown_type = None

\* A step in which a notification operation is called: by the caller, or
\* from the listener method the registry is in.
CallMade ==
    \/ stack = <<>> /\ last' # last /\ last'.op \in Ops
    \/ /\ stack # <<>>
       /\ Len(stack') >= Len(stack)
       /\ stack'[Len(stack)].nest = Top.nest + 1

\* C19: a notification operation called while the flag is set changes
\* neither running_test, the pending type, the listeners nor the flag, and
\* starts nothing; and the flag is set for as long as a notification is
\* executing.
DroppedCallChangesNothing ==
    /\ [][(recursion /\ CallMade) =>
              /\ UNCHANGED regVars
              /\ Len(stack') = Len(stack)
              /\ stack # <<>> => deliveries' = deliveries]_vars
    /\ [](stack # <<>> => recursion)

\* Inside a test the first listener's end_keyword of a setup has called
\* back into the registry once: running_test is still true and the pending
\* type still none, as the delivery left it.
DroppedCallChangesNothingWitness ==
    /\ Len(stack) = 1
    /\ Top.op = "end_keyword"
    /\ Top.arg = "setup"
    /\ Top.phase = "method"
    /\ Top.nest = 1
    /\ running_test
    /\ recursion
    /\ setup_or_teardown_type = None

(***************************************************************************)
(* SpecRetry: the registry in use, with the history of raising listeners   *)
(* kept.                                                                   *)
(***************************************************************************)
InitRetry ==
    /\ config \in MainConfigs
    /\ listeners = InitListeners(config)
    /\ log = InitLog(config)
    /\ recursion = FALSE
    /\ running_test = FALSE
    /\ setup_or_teardown_type = None
    /\ stack = <<>>
    /\ deliveries = <<>>
    /\ last = NoCall
    /\ kwstack = <<>>
    /\ testOpen = FALSE
    /\ everNestedST = FALSE
    /\ built = <<>>
    /\ candidate = NoSpec
    /\ raisedBefore = Kept({})
    /\ NoPayloads
    /\ NoPair

SpecRetry == InitRetry /\ [][Next]_vars

\* The number of times the method of a listener was invoked for the
\* caller's call.
TimesInvoked(j) == Cardinality({k \in 1..Len(deliveries) : deliveries[k].l = j})

\* C16: no notification changes the sequence of listeners; a listener is
\* never invoked twice for one notification; and a listener a method of
\* which has raised is invoked exactly once for every notification the
\* caller makes afterwards.
FixedAdaptersNoRetry ==
    /\ [][listeners' = listeners]_vars
    /\ [](\A j \in 1..NumListeners : TimesInvoked(j) <= 1)
    /\ [](\A j \in raisedBefore.who :
              (Idle /\ Notified) => TimesInvoked(j) = 1)

(***************************************************************************)
(* SpecVersion: ListenerProxy.__init__ on one listener specification.      *)
(***************************************************************************)
CandidateSpecs ==
    {ObjectSpec("Obj", m) : m \in Markers}
    \cup {StringSpec("lis.py:arg", "lis.py", TRUE, m) : m \in Markers}
    \cup {StringSpec("gone.py", "gone.py", FALSE, [kind |-> "absent"])}

RegistryUnbuilt ==
    /\ listeners = Unset
    /\ recursion = FALSE
    /\ running_test = FALSE
    /\ setup_or_teardown_type = None
    /\ stack = <<>>
    /\ deliveries = <<>>
    /\ log = <<>>
    /\ last = NoCall
    /\ kwstack = <<>>
    /\ testOpen = FALSE
    /\ everNestedST = FALSE
    /\ raisedBefore = NotKept
    /\ NoPayloads

InitVersion ==
    /\ candidate \in CandidateSpecs
    /\ built = <<>>
    /\ config = NoneArg
    /\ RegistryUnbuilt
    /\ NoPair

\* ListenerProxy(candidate)
NewProxy ==
    /\ built = <<>>
    /\ built' = <<ListenerProxyInit(candidate)>>
    /\ UNCHANGED <<regVars, stack, deliveries, log, last, callerVars,
                   raisedBefore, config, candidate, copyVars, pairVars>>

NextVersion == NewProxy

SpecVersion == InitVersion /\ [][NextVersion]_vars

\* The marker is the number 2: the integer, the float 2.0 or a string that
\* reads as 2.
DeclaresExactlyTwo(m) ==
    CASE m.kind = "int" -> m.val = 2
      [] m.kind = "float" -> m.tenths = 20
      [] m.kind = "str" ->
             LET r == IntOfStr(m.chars) IN r.exc = "none" /\ r.val = 2
      [] OTHER -> FALSE

\* C6: of the listeners the Importer returns, exactly those whose version
\* marker is 2 get a proxy; one without a marker fails with the 'missing'
\* error and one with any other marker with the 'unsupported' error.
VersionValidation ==
    (built # <<>> /\ ImportListener(candidate).ok) =>
        LET m == candidate.marker
            r == built[1]
        IN  /\ r.ok <=> DeclaresExactlyTwo(m)
            /\ m.kind = "absent" => (~r.ok /\ r.err.kind = "missing")
            /\ (m.kind # "absent" /\ ~DeclaresExactlyTwo(m)) =>
                   (~r.ok /\ r.err.kind = "unsupported")

(***************************************************************************)
(* SpecCtor: Listeners.__init__ on a sequence of listener specifications.  *)
(***************************************************************************)
CtorKinds ==
    {ObjectSpec("A", [kind |-> "int", val |-> 2]),
     ObjectSpec("B", [kind |-> "str", chars |-> <<"2">>]),
     ObjectSpec("C", [kind |-> "absent"]),
     ObjectSpec("D", [kind |-> "str", chars |-> <<"1">>]),
     StringSpec("e.py", "e.py", FALSE, [kind |-> "absent"]),
     StringSpec("f.py:arg", "f.py", TRUE, [kind |-> "int", val |-> 2]),
     StringSpec("g.py", "g.py", TRUE, [kind |-> "int", val |-> 3])}

SeqsUpTo(S, n) == UNION {[1..k -> S] : k \in 0..n}

CtorConfigs == {NoneArg} \cup {Given(s) : s \in SeqsUpTo(CtorKinds, MaxSpecs)}

InitCtor ==
    /\ config \in CtorConfigs
    /\ built = <<>>
    /\ candidate = NoSpec
    /\ RegistryUnbuilt
    /\ NoPair

\* Listeners(config)
Construct ==
    /\ last = NoCall
    /\ listeners' = InitListeners(config)
    /\ log' = InitLog(config)
    /\ running_test' = FALSE
    /\ setup_or_teardown_type' = None
    /\ last' = [op |-> "__init__", arg |-> "-", result |-> "returned"]
    /\ UNCHANGED <<recursion, stack, deliveries, callerVars, raisedBefore,
                   ctorVars, copyVars, pairVars>>

NextCtor == Construct

SpecCtor == InitCtor /\ [][NextCtor]_vars

\* The specifications whose construction fails, and those whose succeeds.
FailedSpecs(specs) == {k \in 1..Len(specs) : ~ListenerProxyInit(specs[k]).ok}

BuiltSpecs(specs) == (1..Len(specs)) \ FailedSpecs(specs)

\* The j-th smallest element of a set of numbers.
Nth(S, j) == CHOOSE k \in S : Cardinality({m \in S : m < k}) = j - 1

\* C5: after Listeners(specs) the registry holds as many proxies as there
\* were specifications less the failed ones, in the order given; each failed
\* specification has exactly one error record, under its display name; and
\* the constructor has returned.
ConstructionFailuresDropped ==
    (last.op = "__init__" /\ ~config.none) =>
        LET specs == config.specs
            failed == FailedSpecs(specs)
            ok == BuiltSpecs(specs)
        IN  /\ last.result = "returned"
            /\ listeners.assigned
            /\ Len(listeners.list) = Len(specs) - Cardinality(failed)
            /\ Len(log) = Cardinality(failed)
            /\ \A j \in 1..Len(log) :
                   /\ log[j].sev = "error"
                   /\ log[j].listener = DisplayName(specs[Nth(failed, j)])
            /\ \A j \in 1..Len(listeners.list) :
                   listeners.list[j].name = ImportListener(specs[Nth(ok, j)]).name

\* Two specifications were given; the first failed and was logged, the
\* second is the registry's only proxy.
ConstructionFailuresDroppedWitness ==
    /\ last.op = "__init__"
    /\ ~config.none
    /\ Len(config.specs) = 2
    /\ FailedSpecs(config.specs) = {1}
    /\ Len(listeners.list) = 1
    /\ Len(log) = 1

(***************************************************************************)
(* SpecCopy: the payloads of one suite, test, keyword, message or import   *)
(* notification, the item's owner and the listeners changing them          *)
(* afterwards.                                                             *)
(***************************************************************************)
ScalarAttrs(names) == [n \in names |-> Scalar(n)]

CommonAttrs ==
    {"name", "doc", "starttime", "endtime", "elapsedtime", "status"}

SuiteItem(source) ==
    [kind |-> "suite",
     attrs |-> ScalarAttrs(CommonAttrs
                   \cup {"id", "longname", "message", "test_count", "stat_message"})
               @@ ("source" :> Scalar(source))
               @@ ("metadata" :> Ref(1)) @@ ("tests" :> Ref(2))
               @@ ("suites" :> Ref(3))]

SuiteHeap ==
    [EmptyHeap EXCEPT ![1] = Collection("dict", <<"k=v">>),
                      ![2] = Collection("list", <<"T1">>),
                      ![3] = Collection("list", <<"S1">>)]

TestItem(critical, template) ==
    [kind |-> "test",
     attrs |-> ScalarAttrs(CommonAttrs \cup {"id", "longname", "message"})
               @@ ("critical" :> Scalar(critical))
               @@ ("template" :> Scalar(template))
               @@ ("tags" :> Ref(1))]

TestHeap == [EmptyHeap EXCEPT ![1] = Collection("list", <<"t1">>)]

KwItem ==
    [kind |-> "kw",
     attrs |-> ScalarAttrs(CommonAttrs \cup {"kwname", "libname", "id",
                                            "longname", "message"})
               @@ ("type" :> Scalar("kw"))
               @@ ("args" :> Ref(1)) @@ ("assign" :> Ref(2))]

KwHeap ==
    [EmptyHeap EXCEPT ![1] = Collection("list", <<"arg1">>),
                      ![2] = Collection("tuple", <<"${x}">>)]

\* A message, as log_message and message are given it.
MsgItem(html) ==
    [kind |-> "msg",
     attrs |-> ScalarAttrs({"timestamp", "message", "level"})
               @@ ("html" :> Scalar(html))]

\* The name and the attrs dict the caller of imported passes; the dict is
\* the caller's own object.
ImportAttrs ==
    ("args" :> Ref(2)) @@ ("originalname" :> Scalar("originalname"))
    @@ ("source" :> Scalar("source")) @@ ("importer" :> Scalar("importer"))

ImportItem ==
    [kind |-> "import",
     attrs |-> ("name" :> Scalar("name")) @@ ("attrs" :> Ref(1))]

ImportHeap ==
    [EmptyHeap EXCEPT ![1] = AttrsDict(ImportAttrs),
                      ![2] = Collection("list", <<"arg1">>)]

ItemsFor(op) ==
    CASE op \in {"start_suite", "end_suite"} ->
             {SuiteItem(src) : src \in {None, "suite.robot"}}
      [] op \in {"start_test", "end_test"} ->
             {TestItem("True", None), TestItem("False", "tmpl")}
      [] op \in MessageOps -> {MsgItem("True"), MsgItem("False")}
      [] op = "imported" -> {ImportItem}
      [] OTHER -> {KwItem}

HeapFor(kind) ==
    CASE kind = "suite" -> SuiteHeap [] kind = "test" -> TestHeap
      [] kind = "kw" -> KwHeap [] kind = "msg" -> EmptyHeap
      [] kind = "import" -> ImportHeap

\* The attributes of the item that are lists or dicts.
CollectionAttrs(it) == {n \in DOMAIN it.attrs : it.attrs[n].ref}

\* The keys of the payload at an address whose values are lists or dicts.
CollectionKeys(h, a) == {n \in DOMAIN h[a].fields : h[a].fields[n].ref}

InitCopy ==
    /\ \E op \in PayloadOps \cup MessageOps \cup {"imported"}, n \in 1..MaxListeners :
           /\ event = [op |-> op, n |-> n, i |-> 1, muts |-> 0]
           /\ item \in ItemsFor(op)
    /\ heap = HeapFor(item.kind)
    /\ domShadow = [n \in CollectionAttrs(item) |-> heap[item.attrs[n].addr].items]
    /\ payloads = <<>>
    /\ payShadow = <<>>
    /\ config = NoneArg
    /\ built = <<>>
    /\ candidate = NoSpec
    /\ listeners = Unset
    /\ recursion = FALSE
    /\ running_test = FALSE
    /\ setup_or_teardown_type = None
    /\ stack = <<>>
    /\ deliveries = <<>>
    /\ log = <<>>
    /\ last = NoCall
    /\ kwstack = <<>>
    /\ testOpen = FALSE
    /\ everNestedST = FALSE
    /\ raisedBefore = NotKept
    /\ NoPair

\* One turn of the operation's loop: the payload is built and the listener's
\* method is called with it.
BuildAndCall ==
    /\ event.i <= event.n
    /\ LET p == NewPayload(event.op, heap, item)
       IN  /\ heap' = p.heap
           /\ payloads' = Append(payloads, p.addr)
           /\ payShadow' = Append(payShadow, View(p.heap, p.addr))
    /\ event' = [event EXCEPT !.i = event.i + 1]
    /\ UNCHANGED <<regVars, stack, deliveries, log, last, callerVars, ctorVars,
                   raisedBefore, pairVars, item, domShadow>>

\* The item's owner adds to one of the item's collections.
OwnerMutates(attr) ==
    /\ attr \in CollectionAttrs(item)
    /\ heap[item.attrs[attr].addr].type \in {"list", "dict"}
    /\ event.muts < MaxMutations
    /\ heap' = [heap EXCEPT ![item.attrs[attr].addr].items = Append(@, "new")]
    /\ domShadow' = [domShadow EXCEPT ![attr] = Append(@, "new")]
    /\ event' = [event EXCEPT !.muts = event.muts + 1]
    /\ UNCHANGED <<regVars, stack, deliveries, log, last, callerVars, ctorVars,
                   raisedBefore, pairVars, item, payloads, payShadow>>

\* A listener adds to one of the collections of the payload it was given.
ListenerMutates(k, key) ==
    /\ k \in 1..Len(payloads)
    /\ key \in CollectionKeys(heap, payloads[k])
    /\ event.muts < MaxMutations
    /\ heap' = [heap EXCEPT ![heap[payloads[k]].fields[key].addr].items =
                                Append(@, "mine")]
    /\ payShadow' = [payShadow EXCEPT ![k][key] = Append(@, "mine")]
    /\ event' = [event EXCEPT !.muts = event.muts + 1]
    /\ UNCHANGED <<regVars, stack, deliveries, log, last, callerVars, ctorVars,
                   raisedBefore, pairVars, item, payloads, domShadow>>

\* A listener assigns a key of the payload it was given.
ListenerSetsKey(k, key) ==
    /\ k \in 1..Len(payloads)
    /\ event.muts < MaxMutations
    /\ heap' = [heap EXCEPT ![payloads[k]].fields = (key :> Scalar("mine")) @@ @]
    /\ payShadow' = [payShadow EXCEPT ![k] = (key :> <<"mine">>) @@ @]
    /\ event' = [event EXCEPT !.muts = event.muts + 1]
    /\ UNCHANGED <<regVars, stack, deliveries, log, last, callerVars, ctorVars,
                   raisedBefore, pairVars, item, payloads, domShadow>>

\* The keys a listener assigns: one the payloads have not, one some have.
AssignedKeys == {"note", "message"}

PayloadKeys ==
    {"tests", "suites", "metadata", "tags", "args", "assign", "id", "doc",
     "starttime", "endtime", "elapsedtime", "status", "message", "longname",
     "totaltests", "source", "statistics", "critical", "template", "kwname",
     "libname", "type"}

NextCopy ==
    \/ BuildAndCall
    \/ \E attr \in PayloadKeys : OwnerMutates(attr)
    \/ \E k \in 1..MaxListeners : \E key \in PayloadKeys : ListenerMutates(k, key)
    \/ \E k \in 1..MaxListeners : \E key \in AssignedKeys : ListenerSetsKey(k, key)

SpecCopy == InitCopy /\ [][NextCopy]_vars

\* C9: the tests, suites, metadata, tags, args and assign of a payload are
\* collections of their own: none is a collection of the item, what the
\* owner adds to the item's collections does not show in a payload, and what
\* a listener adds to its payload's collections does not show in the item.
PayloadCopySafety ==
    event.op \in PayloadOps =>
    /\ \A k \in 1..Len(payloads) :
           /\ View(heap, payloads[k]) = payShadow[k]
           /\ \A key \in DOMAIN heap[payloads[k]].fields :
                  /\ key \in {"tests", "suites", "metadata", "tags", "args", "assign"}
                         => heap[payloads[k]].fields[key].ref
                  /\ heap[payloads[k]].fields[key].ref =>
                         \A attr \in CollectionAttrs(item) :
                             heap[payloads[k]].fields[key].addr
                                 # item.attrs[attr].addr
    /\ \A attr \in CollectionAttrs(item) :
           heap[item.attrs[attr].addr].items = domShadow[attr]

\* After start_suite was delivered to two listeners the owner added a test
\* to the suite and the first listener added to its payload's metadata: the
\* payload still has the one test, the suite still the one metadata entry.
PayloadCopySafetyWitness ==
    /\ event.op = "start_suite"
    /\ Len(payloads) = 2
    /\ heap[item.attrs["tests"].addr].items = <<"T1", "new">>
    /\ View(heap, payloads[1])["tests"] = <<"T1">>
    /\ View(heap, payloads[1])["metadata"] = <<"k=v", "mine">>
    /\ heap[item.attrs["metadata"].addr].items = <<"k=v">>

\* The keys of the payload the k-th listener was given.
KeysOf(k) == DOMAIN heap[payloads[k]].fields

\* No listener and no owner has changed anything since the delivery.
AsDelivered == event.muts = 0

\* C13: a start_keyword or end_keyword payload has none of the keys id,
\* longname and message; its keys are args, assign, kwname, libname, type,
\* doc and starttime, and for end_keyword also endtime, elapsedtime and
\* status.
KeywordPayloadKeys ==
    AsDelivered => \A k \in 1..Len(payloads) :
        /\ event.op \in KeywordOps =>
               /\ KeysOf(k) \cap {"id", "longname", "message"} = {}
               /\ {"args", "assign", "kwname", "libname", "type", "doc"}
                      \subseteq KeysOf(k)
        /\ event.op = "start_keyword" =>
               KeysOf(k) = {"doc", "starttime", "args", "assign", "kwname",
                            "libname", "type"}
        /\ event.op = "end_keyword" =>
               KeysOf(k) = {"doc", "starttime", "endtime", "elapsedtime",
                            "status", "args", "assign", "kwname", "libname",
                            "type"}

\* end_keyword was delivered to two listeners, each with a payload that has
\* a status and no message.
KeywordPayloadKeysWitness ==
    /\ event.op = "end_keyword"
    /\ Len(payloads) = 2
    /\ "status" \in KeysOf(2)
    /\ "message" \notin KeysOf(2)
    /\ "message" \in DOMAIN item.attrs

\* critical is 'yes' for a critical test and 'no' otherwise; template is
\* the test's template, or the empty string when it has none.
CriticalAndTemplate(k) ==
    LET f == heap[payloads[k]].fields
    IN  /\ f["critical"] \in {Scalar("yes"), Scalar("no")}
        /\ f["critical"] = Scalar("yes") <=> item.attrs["critical"] = Scalar("True")
        /\ f["template"] # Scalar(None)
        /\ f["template"] =
               IF item.attrs["template"] = Scalar(None)
                   THEN Scalar("") ELSE item.attrs["template"]

StartTestKeys ==
    {"id", "doc", "starttime", "longname", "tags", "critical", "template"}

\* C14: a start_test payload has exactly the keys id, doc, starttime,
\* longname, tags, critical and template, an end_test payload exactly the
\* keys id, doc, endtime, elapsedtime, status, message, longname, tags,
\* critical and template; critical is 'yes' or 'no' and template a string,
\* empty when the test has none.
TestPayloadKeys ==
    AsDelivered => \A k \in 1..Len(payloads) :
        /\ event.op = "start_test" => KeysOf(k) = StartTestKeys
        /\ event.op = "end_test" =>
               KeysOf(k) = {"id", "doc", "endtime", "elapsedtime", "status",
                            "message", "longname", "tags", "critical",
                            "template"}
        /\ event.op \in {"start_test", "end_test"} => CriticalAndTemplate(k)

\* C14 as amended: the end_test payload has the start time as well, its
\* keys being those of start_test and endtime, elapsedtime, status and
\* message.
TestPayloadKeysWithStartTime ==
    AsDelivered => \A k \in 1..Len(payloads) :
        /\ event.op = "start_test" => KeysOf(k) = StartTestKeys
        /\ event.op = "end_test" =>
               KeysOf(k) = StartTestKeys
                               \cup {"endtime", "elapsedtime", "status", "message"}
        /\ event.op \in {"start_test", "end_test"} => CriticalAndTemplate(k)

\* end_test of a test without a template was delivered: the payload has a
\* start time and an end time, says 'yes' and has the empty string as
\* template.
TestPayloadKeysWitness ==
    /\ event.op = "end_test"
    /\ Len(payloads) >= 1
    /\ item.attrs["template"] = Scalar(None)
    /\ {"starttime", "endtime"} \subseteq KeysOf(1)
    /\ heap[payloads[1]].fields["critical"] = Scalar("yes")
    /\ heap[payloads[1]].fields["template"] = Scalar("")

\* The objects a payload consists of: the mapping and its collections.
ObjectsOf(k) ==
    {payloads[k]}
    \cup {heap[payloads[k]].fields[key].addr : key \in CollectionKeys(heap, payloads[k])}

\* The caller's own objects: the item's collections and what they hold.
CallersObjects ==
    {item.attrs[attr].addr : attr \in CollectionAttrs(item)}
    \cup UNION {{heap[item.attrs[attr].addr].fields[key].addr :
                    key \in CollectionKeys(heap, item.attrs[attr].addr)} :
                attr \in CollectionAttrs(item)}

\* C20: for suite, test, keyword, message and import events alike every
\* listener is given a mapping of its own: no two listeners' payloads have
\* an object in common, none has one in common with the caller's data, and
\* each payload holds what its listener has seen and put in it, whatever the
\* other listeners have done to theirs.
PayloadIsolation ==
    /\ \A k \in 1..Len(payloads) :
           /\ View(heap, payloads[k]) = payShadow[k]
           /\ ObjectsOf(k) \cap CallersObjects = {}
           /\ \A j \in 1..(k - 1) : ObjectsOf(j) \cap ObjectsOf(k) = {}
    /\ event.op = "imported" =>
           heap[item.attrs["attrs"].addr].fields = ImportAttrs

\* C20 as amended: for suite, test, keyword and message events every
\* listener is given a mapping of its own, with no object in common with
\* another listener's payload or the caller's data, holding what its
\* listener has seen and put in it; for import events every listener is
\* given the caller's attrs mapping itself.
PayloadIsolationButImports ==
    /\ event.op # "imported" =>
           \A k \in 1..Len(payloads) :
               /\ View(heap, payloads[k]) = payShadow[k]
               /\ ObjectsOf(k) \cap CallersObjects = {}
               /\ \A j \in 1..(k - 1) : ObjectsOf(j) \cap ObjectsOf(k) = {}
    /\ event.op = "imported" =>
           \A k \in 1..Len(payloads) : payloads[k] = item.attrs["attrs"].addr

\* log_message was delivered to two listeners and the first assigned a key
\* of its payload: the second listener's payload does not have it.
PayloadIsolationWitness ==
    /\ event.op = "log_message"
    /\ Len(payloads) = 2
    /\ "note" \in KeysOf(1)
    /\ "note" \notin KeysOf(2)

(***************************************************************************)
(* SpecPair: two registries of one process.  A listener's method of one    *)
(* may call a notification operation of the other; a wrapped method        *)
(* returns, or an exception leaves it.                                     *)
(***************************************************************************)
Registries == {"A", "B"}

\* cls._recursion, which no code assigns after the decoration.
ClassRecursion == FALSE

\* An attribute an instance does not have, and one it has.
NoAttr == [has |-> FALSE, val |-> FALSE]
Attr(v) == [has |-> TRUE, val |-> v]

\* A registry after construction: __init__ does not assign _recursion.
NewInstance == [recursion |-> NoAttr, dispatched |-> 0, dropped |-> 0,
                raisedOut |-> FALSE]

\* self._recursion read: the instance's attribute, else the class's.
GetRecursion(inst) == IF inst.recursion.has THEN inst.recursion.val ELSE ClassRecursion

\* An assignment that every instance of the class sees.
SetRecursionOnClass(insts, r, v) ==
    [q \in DOMAIN insts |-> [insts[q] EXCEPT !.recursion = Attr(v)]]

\* self._recursion = v
SetRecursion(insts, r, v) == [insts EXCEPT ![r].recursion = Attr(v)]

InitPair ==
    /\ instances = [r \in Registries |-> NewInstance]
    /\ calls = <<>>
    /\ config = NoneArg
    /\ built = <<>>
    /\ candidate = NoSpec
    /\ RegistryUnbuilt

\* A notification operation of registry r is called, by the run-driving
\* caller or from the listener method the innermost call is in.
AvoidRecursion(r) ==
    /\ IF AvoidRecursionEnters(GetRecursion(instances[r]))
           THEN /\ instances[r].dispatched < MaxCalls
                /\ instances' = [SetRecursion(instances, r, TRUE) EXCEPT
                                     ![r].dispatched = @ + 1]
                /\ calls' = Append(calls, r)
       ELSE /\ instances[r].dropped < MaxCalls
            /\ instances' = [instances EXCEPT ![r].dropped = @ + 1]
            /\ calls' = calls
    /\ UNCHANGED <<regVars, stack, deliveries, log, last, callerVars,
                   raisedBefore, ctorVars, copyVars>>

\* The innermost wrapped method returns: its registry's flag is reset.
WrappedReturns ==
    /\ calls # <<>>
    /\ instances' = SetRecursion(instances, calls[Len(calls)], FlagAfterReturn)
    /\ calls' = SubSeq(calls, 1, Len(calls) - 1)
    /\ UNCHANGED <<regVars, stack, deliveries, log, last, callerVars,
                   raisedBefore, ctorVars, copyVars>>

\* An exception leaves the innermost wrapped method: line 38 is not reached.
WrappedRaises ==
    /\ calls # <<>>
    /\ instances' = [instances EXCEPT ![calls[Len(calls)]].raisedOut = TRUE]
    /\ calls' = SubSeq(calls, 1, Len(calls) - 1)
    /\ UNCHANGED <<regVars, stack, deliveries, log, last, callerVars,
                   raisedBefore, ctorVars, copyVars>>

NextPair ==
    \/ \E r \in Registries : AvoidRecursion(r)
    \/ WrappedReturns
    \/ WrappedRaises

SpecPair == InitPair /\ [][NextPair]_vars

Executing(r) == \E k \in 1..Len(calls) : calls[k] = r

\* C17: the flag a registry reads is set exactly while a notification of
\* that registry itself is executing (or after an exception has left one),
\* whatever the other registry does; so a notification of a registry that is
\* not executing is dispatched also while the other registry is, and entering
\* or leaving one registry changes no attribute of the other.  A registry
\* that has not been entered has no flag of its own and reads the class's.
GuardPerInstance ==
    /\ [](\A r \in Registries :
              /\ GetRecursion(instances[r])
                     <=> (Executing(r) \/ instances[r].raisedOut)
              /\ (instances[r].dispatched = 0) => instances[r].recursion = NoAttr)
    /\ [][\A r \in Registries :
              /\ (~Executing(r) /\ ~instances[r].raisedOut) =>
                     instances'[r].dropped = instances[r].dropped
              /\ instances'[r] # instances[r] =>
                     \A q \in Registries \ {r} : instances'[q] = instances[q]]_vars

\* A listener of registry A has called a notification of registry B, which
\* was dispatched and is executing inside A's.
GuardPerInstanceWitness ==
    /\ calls = <<"A", "B">>
    /\ instances["B"].dispatched = 1
    /\ instances["B"].dropped = 0
    /\ GetRecursion(instances["A"])

====
